---- MODULE Spec2Model ----
(***************************************************************************)
(* Durand-Kerner root finder (durand_kerner.py) and the Gaussian filter    *)
(* zero extractor built on it (gaussian_filter.py).                        *)
(*                                                                         *)
(* mpmath numbers are modelled as decimal floating point values            *)
(* [m |-> mantissa, e |-> exponent] standing for m * 10^e, rounded to      *)
(* Digits significant digits after every operation; the exponent is        *)
(* unbounded, as in mpmath.  A complex number (mpmath.mpc) is a record     *)
(* [re |-> float, im |-> float].  The working precision is Digits for      *)
(* every dps; dps selects the tolerances and the sweep budget, as in the   *)
(* code.  cos, sin, exp and the Hann window are tables of their values at  *)
(* the arguments the model calls them with.                                *)
(***************************************************************************)
EXTENDS Integers, Sequences, FiniteSets

VARIABLES
    mode,                         \* "direct": durand_kerner is called by its own caller; "gauss": calculate_gaussian_zeros is called
    taps, sigma, dps,             \* arguments of calculate_gaussian_zeros (dps also of durand_kerner)
    coefficients,                 \* argument of durand_kerner
    max_iterations, tolerance,    \* arguments of durand_kerner
    pc,                           \* position in the call
    trimmed_coefficients,         \* gaussian_filter.py local
    removed_constant_terms_count, \* gaussian_filter.py local
    roots, new_roots,             \* durand_kerner.py locals
    i, iteration, converged,      \* durand_kerner.py loop state
    error,                        \* exception raised by durand_kerner ("none" when none)
    zeros,                        \* value returned by calculate_gaussian_zeros
    stderr                        \* number of diagnostics printed on the error stream

vars == <<mode, taps, sigma, dps, coefficients, max_iterations, tolerance, pc,
          trimmed_coefficients, removed_constant_terms_count, roots, new_roots,
          i, iteration, converged, error, zeros, stderr>>

---------------------------------------------------------------------------
(* Bounds of the model *)

Digits == 3          \* significant decimal digits kept by the arithmetic
MaxLen == 3          \* longest coefficient vector passed directly to durand_kerner
MaxIter == 2         \* largest explicit max_iterations of a direct call
MaxDirectDps == 1    \* largest dps of a direct call
MaxDps == 7          \* largest dps of a call of calculate_gaussian_zeros
MaxTaps == 4         \* largest taps

(* Program constants *)

IterationsPerDigit == 20        \* dps * 20
DefaultMaxIterations == 1000    \* max_iterations: int = 1000
ToleranceMargin == 5            \* 10 ** (-dps + 5)
TrimMargin == 4                 \* 10 ** (-dps + 4)
ZeroMargin == 5                 \* zero_tolerance = 10 ** (-dps + 5)
MinTaps == 3                    \* max(3, taps)
MaxFilterTaps == 31             \* min(..., 31)

---------------------------------------------------------------------------
(* Integer helpers *)

AbsI(a) == IF a < 0 THEN -a ELSE a

SgnI(a) == IF a < 0 THEN -1 ELSE IF a > 0 THEN 1 ELSE 0

MaxI(a, b) == IF a >= b THEN a ELSE b

MinI(a, b) == IF a <= b THEN a ELSE b

RECURSIVE Pow10(_)
Pow10(k) == IF k <= 0 THEN 1 ELSE 10 * Pow10(k - 1)

\* a / b rounded to the nearest integer (half away from zero), b > 0
RoundDiv(a, b) == SgnI(a) * ((2 * AbsI(a) + b) \div (2 * b))

RECURSIVE ISqrt(_)
ISqrt(k) ==
    IF k < 2 THEN k
    ELSE LET s == 2 * ISqrt(k \div 4)
         IN IF (s + 1) * (s + 1) <= k THEN s + 1 ELSE s

---------------------------------------------------------------------------
(* mpmath.mpf: decimal floating point with Digits significant digits *)

RECURSIVE Norm(_, _)
Norm(m, e) ==
    IF m = 0 THEN [m |-> 0, e |-> 0]
    ELSE IF AbsI(m) >= Pow10(Digits) THEN Norm(RoundDiv(m, 10), e + 1)
    ELSE IF AbsI(m) < Pow10(Digits - 1) THEN Norm(m * 10, e - 1)
    ELSE [m |-> m, e |-> e]

Zero == Norm(0, 0)

One == Norm(1, 0)

FNeg(a) == [m |-> -a.m, e |-> a.e]

FAbs(a) == [m |-> AbsI(a.m), e |-> a.e]

FAdd(a, b) ==
    IF a.m = 0 THEN b
    ELSE IF b.m = 0 THEN a
    ELSE LET hi == IF a.e >= b.e THEN a ELSE b
             lo == IF a.e >= b.e THEN b ELSE a
             gap == hi.e - lo.e
         IN IF gap > Digits + 1 THEN hi
            ELSE Norm(hi.m * Pow10(gap) + lo.m, lo.e)

FSub(a, b) == FAdd(a, FNeg(b))

FMul(a, b) == Norm(a.m * b.m, a.e + b.e)

\* b is not zero
FDiv(a, b) ==
    Norm(SgnI(b.m) * RoundDiv(a.m * Pow10(Digits), AbsI(b.m)), a.e - b.e - Digits)

FSqrt(a) ==
    IF a.m = 0 THEN Zero
    ELSE LET odd == (a.e % 2) # 0
             mm == IF odd THEN a.m * 10 ELSE a.m
             ee == IF odd THEN a.e - 1 ELSE a.e
             t == Digits \div 2
         IN Norm(ISqrt(mm * Pow10(2 * t)), (ee - 2 * t) \div 2)

FLt(a, b) == FSub(a, b).m < 0

FLe(a, b) == FSub(a, b).m <= 0

FGt(a, b) == FSub(a, b).m > 0

FMax(a, b) == IF FLt(a, b) THEN b ELSE a

(* mpmath.mpc *)

Cx(re, im) == [re |-> re, im |-> im]

CAdd(x, y) == Cx(FAdd(x.re, y.re), FAdd(x.im, y.im))

CSub(x, y) == Cx(FSub(x.re, y.re), FSub(x.im, y.im))

CMul(x, y) ==
    Cx(FSub(FMul(x.re, y.re), FMul(x.im, y.im)),
       FAdd(FMul(x.re, y.im), FMul(x.im, y.re)))

\* mpc * mpf
CScale(x, a) == Cx(FMul(x.re, a), FMul(x.im, a))

CMag(d) == FAdd(FMul(d.re, d.re), FMul(d.im, d.im))

CIsZero(d) == d.re.m = 0 /\ d.im.m = 0

\* d is not zero
CDiv(p, d) ==
    Cx(FDiv(FAdd(FMul(p.re, d.re), FMul(p.im, d.im)), CMag(d)),
       FDiv(FSub(FMul(p.im, d.re), FMul(p.re, d.im)), CMag(d)))

CAbs(x) == FSqrt(CMag(x))

---------------------------------------------------------------------------
(* durand_kerner.py *)

\* The decimal literal m * 10^e
F(m, e) == Norm(m, e)

\* 10 ** k
TenTo(k) == Norm(1, k)

\* tolerance = None
None == [given |-> FALSE, value |-> Zero]

Given(t) == [given |-> TRUE, value |-> t]

\* mpmath.cos((2 * mpmath.pi * k) / n), three-digit table
CosTable(n, k) ==
    CASE k = 0 -> F(100, -2)
      [] n = 2 /\ k = 1 -> F(-100, -2)
      [] n = 3 /\ k = 1 -> F(-496, -3)
      [] n = 3 /\ k = 2 -> F(-490, -3)
      [] n = 4 /\ k = 1 -> F(796, -6)
      [] n = 4 /\ k = 2 -> F(-100, -2)
      [] n = 4 /\ k = 3 -> F(-124, -4)
      [] n = 5 /\ k = 1 -> F(306, -3)
      [] n = 5 /\ k = 2 -> F(-813, -3)
      [] n = 5 /\ k = 3 -> F(-815, -3)
      [] n = 5 /\ k = 4 -> F(303, -3)
      [] n = 6 /\ k = 1 -> F(498, -3)
      [] n = 6 /\ k = 2 -> F(-505, -3)
      [] n = 6 /\ k = 3 -> F(-100, -2)
      [] n = 6 /\ k = 4 -> F(-508, -3)
      [] n = 6 /\ k = 5 -> F(495, -3)

\* mpmath.sin((2 * mpmath.pi * k) / n), three-digit table
SinTable(n, k) ==
    CASE k = 0 -> Zero
      [] n = 2 /\ k = 1 -> F(159, -5)
      [] n = 3 /\ k = 1 -> F(868, -3)
      [] n = 3 /\ k = 2 -> F(-872, -3)
      [] n = 4 /\ k = 1 -> F(100, -2)
      [] n = 4 /\ k = 2 -> F(-841, -5)
      [] n = 4 /\ k = 3 -> F(-100, -2)
      [] n = 5 /\ k = 1 -> F(952, -3)
      [] n = 5 /\ k = 2 -> F(582, -3)
      [] n = 5 /\ k = 3 -> F(-580, -3)
      [] n = 5 /\ k = 4 -> F(-953, -3)
      [] n = 6 /\ k = 1 -> F(867, -3)
      [] n = 6 /\ k = 2 -> F(863, -3)
      [] n = 6 /\ k = 3 -> F(116, -4)
      [] n = 6 /\ k = 4 -> F(-862, -3)
      [] n = 6 /\ k = 5 -> F(-869, -3)

\* tolerance = mpmath.mpf(10) ** (-dps + 5) when none is given
EffectiveTolerance(tol, d) ==
    IF tol.given THEN tol.value ELSE TenTo(ToleranceMargin - d)

\* Faulty variant: the budget is not raised with dps
effective_max_iterations_Unscaled(maxit, d) == maxit

effective_max_iterations(maxit, d) == MaxI(maxit, d * IterationsPerDigit)

\* n = len(coeffs) - 1
Degree(coeffs) == Len(coeffs) - 1

\* The coefficient of x^k (coeffs[k], ascending powers)
Coeff(coeffs, k) == coeffs[k + 1]

\* Faulty variant: the constant term is taken for the leading coefficient
LeadingCoefficient_ConstantTerm(coeffs) == Coeff(coeffs, 0)

\* The coefficient a_n checked for negligibility and used in the denominator
LeadingCoefficient(coeffs) == Coeff(coeffs, Degree(coeffs))

\* if n <= 0: raise ValueError
DegreeInvalid(coeffs) == Degree(coeffs) <= 0

\* if abs(coeffs[n]) < tolerance: raise ValueError
LeadingNegligible(coeffs, tol) == FLt(FAbs(LeadingCoefficient(coeffs)), tol)

RECURSIVE MaxAbs(_, _)
MaxAbs(coeffs, k) ==
    IF k = 1 THEN FAbs(coeffs[1])
    ELSE FMax(MaxAbs(coeffs, k - 1), FAbs(coeffs[k]))

\* max_coeff = max(abs(c) for c in coeffs)
max_coeff(coeffs) == MaxAbs(coeffs, Len(coeffs))

\* The coefficient the initial radius divides by
RadiusDivisor(coeffs) == Coeff(coeffs, 0)

\* max_coeff / abs(coeffs[0]) raises ZeroDivisionError
RadiusFails(coeffs) == RadiusDivisor(coeffs).m = 0

initial_radius(coeffs) ==
    FMax(One, FDiv(max_coeff(coeffs), FAbs(RadiusDivisor(coeffs))))

\* roots after the initialisation loop
InitialRoots(coeffs) ==
    LET n == Degree(coeffs)
        r == initial_radius(coeffs)
    IN [k \in 1..n |->
           Cx(FMul(r, CosTable(n, k - 1)), FMul(r, SinTable(n, k - 1)))]

\* -coeffs[0] / coeffs[1] raises ZeroDivisionError
LinearFails(coeffs) == Coeff(coeffs, 1).m = 0

\* Faulty variant: the sign of the root is lost
LinearRoot_Unnegated(coeffs) ==
    <<Cx(FDiv(Coeff(coeffs, 0), Coeff(coeffs, 1)), Zero)>>

\* [mpmath.mpc(-coeffs[0] / coeffs[1], 0)]
LinearRoot(coeffs) ==
    <<Cx(FDiv(FNeg(Coeff(coeffs, 0)), Coeff(coeffs, 1)), Zero)>>

RECURSIVE EvalFrom(_, _, _, _, _)
EvalFrom(coeffs, x, k, result, x_power) ==
    IF k > Degree(coeffs) THEN result
    ELSE EvalFrom(coeffs, x, k + 1,
                  CAdd(result, CScale(x_power, Coeff(coeffs, k))),
                  CMul(x_power, x))

evaluate_polynomial(coeffs, x) == EvalFrom(coeffs, x, 0, Cx(Zero, Zero), Cx(One, Zero))

\* Faulty variant: estimates already updated in this sweep are read
SweepEstimates_Updated(old, new, idx) ==
    [k \in 1..Len(old) |-> IF k <= Len(new) THEN new[k] ELSE old[k]]

\* The estimates read while index idx of a sweep is processed
SweepEstimates(old, new, idx) == old

RECURSIVE DenominatorFrom(_, _, _, _)
DenominatorFrom(est, idx, j, acc) ==
    IF j >= Len(est) THEN acc
    ELSE DenominatorFrom(est, idx, j + 1,
             IF idx # j THEN CMul(acc, CSub(est[idx + 1], est[j + 1])) ELSE acc)

\* a_n * prod_{j != idx} (x_idx - x_j)
denominator(coeffs, est, idx) ==
    DenominatorFrom(est, idx, 0, Cx(LeadingCoefficient(coeffs), Zero))

\* p_x_i / denominator raises ZeroDivisionError
CorrectionFails(coeffs, est, idx) == CIsZero(denominator(coeffs, est, idx))

correction(coeffs, est, idx) ==
    CDiv(evaluate_polynomial(coeffs, est[idx + 1]), denominator(coeffs, est, idx))

\* new_x_i = x_i - correction
new_x_i(coeffs, est, idx) == CSub(est[idx + 1], correction(coeffs, est, idx))

\* if diff > tolerance: converged = False
NotConverged(c, tol) == FGt(CAbs(c), tol)

\* The loop "for iteration in range(effective_max_iterations)" ends
SweepsOver(conv, done, maxit, d) ==
    conv \/ done >= effective_max_iterations(maxit, d)

---------------------------------------------------------------------------
(* gaussian_filter.py *)

\* N = min(max(3, taps), 31)
FilterLength(t) == MinI(MaxI(MinTaps, t), MaxFilterTaps)

half_n(t) == FilterLength(t) \div 2

\* The values of sigma the model calls with: 0.2, 0.5, 1 and 10
Sigmas == {F(2, -1), F(5, -1), One, F(1, 1)}

\* mpmath.exp(-(n * n) / (2 * sigma * sigma)), three-digit table
GaussExp(s, n) ==
    CASE n = 0 -> One
      [] s = F(2, -1) /\ n = 1 -> F(373, -8)
      [] s = F(2, -1) /\ n = 2 -> F(193, -24)
      [] s = F(2, -1) /\ n = 3 -> F(229, -51)
      [] s = F(5, -1) /\ n = 1 -> F(135, -3)
      [] s = F(5, -1) /\ n = 2 -> F(335, -6)
      [] s = F(5, -1) /\ n = 3 -> F(152, -10)
      [] s = One /\ n = 1 -> F(607, -3)
      [] s = One /\ n = 2 -> F(135, -3)
      [] s = One /\ n = 3 -> F(111, -4)
      [] s = F(1, 1) /\ n = 1 -> F(995, -3)
      [] s = F(1, 1) /\ n = 2 -> F(980, -3)
      [] s = F(1, 1) /\ n = 3 -> F(956, -3)

\* 0.5 * (1 - cos(2 * pi * (idx + 1) / (N + 1))), three-digit table
WindowValue(len, idx) ==
    CASE len = 3 /\ idx \in {0, 2} -> F(5, -1)
      [] len = 3 /\ idx = 1 -> One
      [] len = 4 /\ idx = 0 -> F(347, -3)
      [] len = 4 /\ idx \in {1, 2} -> F(905, -3)
      [] len = 4 /\ idx = 3 -> F(348, -3)
      [] len = 4 /\ idx = 4 -> Zero
      [] len = 5 /\ idx = 0 -> F(251, -3)
      [] len = 5 /\ idx \in {1, 3} -> F(750, -3)
      [] len = 5 /\ idx = 2 -> One
      [] len = 5 /\ idx = 4 -> F(252, -3)
      [] len = 6 /\ idx = 0 -> F(188, -3)
      [] len = 6 /\ idx \in {1, 4} -> F(615, -3)
      [] len = 6 /\ idx \in {2, 3} -> F(950, -3)
      [] len = 6 /\ idx = 5 -> F(190, -3)
      [] len = 6 /\ idx = 6 -> Zero

RECURSIVE SumTo(_, _)
SumTo(seq, k) == IF k = 0 THEN Zero ELSE FAdd(SumTo(seq, k - 1), seq[k])

\* sum(impulse_response)
Sum(seq) == SumTo(seq, Len(seq))

\* The windowed samples before normalisation
WindowedSamples(s, t) ==
    [k \in 1..(2 * half_n(t) + 1) |->
        FMul(GaussExp(s, AbsI(k - 1 - half_n(t))),
             WindowValue(FilterLength(t), k - 1))]

\* calculate_gaussian_impulse_response(sigma, taps, window_function='hann', dps=dps)
calculate_gaussian_impulse_response(s, t) ==
    LET h == WindowedSamples(s, t)
        sum_val == Sum(h)
    IN [k \in 1..Len(h) |-> FDiv(h[k], sum_val)]

\* gaussian_filter_zero_tolerance = mpmath.mpf(10) ** (-dps + 4)
gaussian_filter_zero_tolerance(d) == TenTo(TrimMargin - d)

\* while len(c) > 1 and abs(c[0]) <= tolerance: c = c[1:]
RECURSIVE TrimLeading(_, _)
TrimLeading(c, tol) ==
    IF Len(c) > 1 /\ FLe(FAbs(c[1]), tol) THEN TrimLeading(Tail(c), tol) ELSE c

\* Faulty variant: the trailing loop lacks the length guard
RECURSIVE TrimTrailing_Unguarded(_, _)
TrimTrailing_Unguarded(c, tol) ==
    IF Len(c) > 0 /\ FLe(FAbs(c[Len(c)]), tol)
    THEN TrimTrailing_Unguarded(SubSeq(c, 1, Len(c) - 1), tol)
    ELSE c

\* while len(c) > 1 and abs(c[-1]) <= tolerance: c = c[:-1]
RECURSIVE TrimTrailing(_, _)
TrimTrailing(c, tol) ==
    IF Len(c) > 1 /\ FLe(FAbs(c[Len(c)]), tol)
    THEN TrimTrailing(SubSeq(c, 1, Len(c) - 1), tol)
    ELSE c

\* trimmed_coefficients after both loops
Trimmed(c, tol) ==
    IF Len(c) > 1 THEN TrimTrailing(TrimLeading(c, tol), tol) ELSE c

\* if len(trimmed) > 1 and abs(trimmed[0]) > tolerance: the root iterator is called
CallsIterator(c, t, tol) ==
    Len(c) > 1 /\ Len(t) > 1 /\ FGt(FAbs(t[1]), tol)

\* zero_tolerance = mpmath.mpf(10) ** (-dps + 5)
zero_tolerance(d) == TenTo(ZeroMargin - d)

\* Faulty variant: every root is kept
KeepsRoot_All(root, ztol) == TRUE

\* abs(root.imag) < zero_tolerance or root.imag > zero_tolerance
KeepsRoot(root, ztol) == FLt(FAbs(root.im), ztol) \/ FGt(root.im, ztol)

RECURSIVE FilterFrom(_, _, _)
FilterFrom(rs, ztol, k) ==
    IF k > Len(rs) THEN <<>>
    ELSE (IF KeepsRoot(rs[k], ztol) THEN <<rs[k]>> ELSE <<>>) \o FilterFrom(rs, ztol, k + 1)

\* The zeros returned from the roots of the iterator
UpperHalfPlane(rs, d) == FilterFrom(rs, zero_tolerance(d), 1)

\* Faulty variant: except ZeroDivisionError
Caught_DivisionOnly(e) == e = "ZeroDivisionError"

\* except Exception as e
Caught(e) == e \in {"ValueError", "ZeroDivisionError"}

---------------------------------------------------------------------------
(* Argument values of the calls *)

CoeffValues == {Zero, F(5, -2), One}

CoeffVectors == UNION {[1..len -> CoeffValues] : len \in 0..MaxLen}

Tolerances == {None, Given(Zero), Given(F(1, -1))}

NoLocals ==
    /\ trimmed_coefficients = <<>>
    /\ removed_constant_terms_count = 0
    /\ roots = <<>>
    /\ new_roots = <<>>
    /\ i = 0
    /\ iteration = 0
    /\ converged = TRUE
    /\ error = "none"
    /\ zeros = <<>>
    /\ stderr = 0

\* durand_kerner(coefficients, max_iterations, tolerance, dps) called by its own caller
InitDirect ==
    /\ mode = "direct"
    /\ taps = 0
    /\ sigma = Zero
    /\ dps \in 0..MaxDirectDps
    /\ coefficients \in CoeffVectors
    /\ max_iterations \in 0..MaxIter
    /\ tolerance \in Tolerances
    /\ pc = "dk_call"
    /\ NoLocals

\* calculate_gaussian_zeros(taps, sigma, dps)
InitGauss ==
    /\ mode = "gauss"
    /\ taps \in 1..MaxTaps
    /\ sigma \in Sigmas
    /\ dps \in 0..MaxDps
    /\ coefficients = <<>>
    /\ max_iterations = 0
    /\ tolerance = None
    /\ pc = "gz_call"
    /\ NoLocals

Init == InitDirect \/ InitGauss

---------------------------------------------------------------------------
(* calculate_gaussian_zeros up to the call of the iterator *)

Prepare ==
    /\ pc = "gz_call"
    /\ LET c == calculate_gaussian_impulse_response(sigma, taps)
           tol == gaussian_filter_zero_tolerance(dps)
           t == Trimmed(c, tol)
       IN /\ trimmed_coefficients' = t
          /\ removed_constant_terms_count' =
                 IF Len(c) > 1 THEN Len(TrimLeading(c, tol)) - Len(t) ELSE 0
          /\ IF CallsIterator(c, t, tol)
             THEN /\ coefficients' = t
                  /\ max_iterations' = DefaultMaxIterations
                  /\ pc' = "dk_call"
             ELSE /\ pc' = "gz_return"
                  /\ UNCHANGED <<coefficients, max_iterations>>
    /\ UNCHANGED <<mode, taps, sigma, dps, tolerance, roots, new_roots, i,
                   iteration, converged, error, zeros, stderr>>

(* durand_kerner *)

Tol == EffectiveTolerance(tolerance, dps)

Raise(e) ==
    /\ error' = e
    /\ pc' = "dk_raise"
    /\ UNCHANGED <<mode, taps, sigma, dps, coefficients, max_iterations, tolerance,
                   trimmed_coefficients, removed_constant_terms_count, roots,
                   new_roots, i, iteration, converged, zeros, stderr>>

\* the two checks that raise ValueError, in the order of the code
Invalid ==
    IF DegreeInvalid(coefficients) THEN TRUE
    ELSE LeadingNegligible(coefficients, Tol)

Valid == ~Invalid

\* raise ValueError: degree below 1, or leading coefficient negligible
RaiseInvalid ==
    /\ pc = "dk_call"
    /\ Invalid
    /\ Raise("ValueError")

\* n == 1
Linear ==
    /\ pc = "dk_call"
    /\ Valid
    /\ Degree(coefficients) = 1
    /\ IF LinearFails(coefficients)
       THEN Raise("ZeroDivisionError")
       ELSE /\ roots' = LinearRoot(coefficients)
            /\ pc' = "dk_return"
            /\ UNCHANGED <<mode, taps, sigma, dps, coefficients, max_iterations,
                           tolerance, trimmed_coefficients,
                           removed_constant_terms_count, new_roots, i, iteration,
                           converged, error, zeros, stderr>>

\* initial estimates on the circle, then the first sweep starts (or none does)
Initialise ==
    /\ pc = "dk_call"
    /\ Valid
    /\ Degree(coefficients) >= 2
    /\ IF RadiusFails(coefficients)
       THEN Raise("ZeroDivisionError")
       ELSE /\ roots' = InitialRoots(coefficients)
            /\ pc' = IF SweepsOver(FALSE, 0, max_iterations, dps)
                     THEN "dk_return" ELSE "dk_sweep"
            /\ new_roots' = <<>>
            /\ i' = 0
            /\ iteration' = 0
            /\ converged' = TRUE
            /\ UNCHANGED <<mode, taps, sigma, dps, coefficients, max_iterations,
                           tolerance, trimmed_coefficients,
                           removed_constant_terms_count, error, zeros, stderr>>

\* one pass of "for i in range(n)"
Correct ==
    /\ pc = "dk_sweep"
    /\ i < Degree(coefficients)
    /\ LET est == SweepEstimates(roots, new_roots, i)
       IN IF CorrectionFails(coefficients, est, i)
          THEN Raise("ZeroDivisionError")
          ELSE /\ new_roots' = Append(new_roots, new_x_i(coefficients, est, i))
               /\ converged' = (converged /\ ~NotConverged(correction(coefficients, est, i), Tol))
               /\ i' = i + 1
               /\ UNCHANGED <<mode, taps, sigma, dps, coefficients, max_iterations,
                              tolerance, pc, trimmed_coefficients,
                              removed_constant_terms_count, roots, iteration,
                              error, zeros, stderr>>

\* roots = new_roots; if converged: break; next sweep or return
EndSweep ==
    /\ pc = "dk_sweep"
    /\ i = Degree(coefficients)
    /\ roots' = new_roots
    /\ iteration' = iteration + 1
    /\ IF SweepsOver(converged, iteration + 1, max_iterations, dps)
       THEN /\ pc' = "dk_return"
            /\ UNCHANGED <<new_roots, i, converged>>
       ELSE /\ pc' = "dk_sweep"
            /\ new_roots' = <<>>
            /\ i' = 0
            /\ converged' = TRUE
    /\ UNCHANGED <<mode, taps, sigma, dps, coefficients, max_iterations, tolerance,
                   trimmed_coefficients, removed_constant_terms_count, error,
                   zeros, stderr>>

(* calculate_gaussian_zeros after the call of the iterator *)

\* the roots came back: keep the upper half plane
Filter ==
    /\ pc = "dk_return"
    /\ mode = "gauss"
    /\ zeros' = UpperHalfPlane(roots, dps)
    /\ pc' = "gz_return"
    /\ UNCHANGED <<mode, taps, sigma, dps, coefficients, max_iterations, tolerance,
                   trimmed_coefficients, removed_constant_terms_count, roots,
                   new_roots, i, iteration, converged, error, stderr>>

\* except Exception: print the warning, return []
Catch ==
    /\ pc = "dk_raise"
    /\ mode = "gauss"
    /\ IF Caught(error)
       THEN /\ stderr' = stderr + 1
            /\ zeros' = <<>>
            /\ pc' = "gz_return"
       ELSE /\ pc' = "gz_raise"
            /\ UNCHANGED <<stderr, zeros>>
    /\ UNCHANGED <<mode, taps, sigma, dps, coefficients, max_iterations, tolerance,
                   trimmed_coefficients, removed_constant_terms_count, roots,
                   new_roots, i, iteration, converged, error>>

Next ==
    \/ Prepare
    \/ RaiseInvalid
    \/ Linear
    \/ Initialise
    \/ Correct
    \/ EndSweep
    \/ Filter
    \/ Catch

Spec == Init /\ [][Next]_vars

---------------------------------------------------------------------------
(* Properties *)

\* durand_kerner has ended: it returned, or it raised
Ended == pc \in {"dk_return", "dk_raise", "gz_return", "gz_raise"}

\* The sweeps the loop may run: max(max_iterations, dps * 20)
SweepBudget == IF max_iterations >= dps * 20 THEN max_iterations ELSE dps * 20

\* The leading coefficient of the call is below the tolerance in magnitude
LeadingWithinTolerance ==
    /\ Len(coefficients) >= 1
    /\ FLt(FAbs(coefficients[Len(coefficients)]), Tol)

\* C1: a direct call of durand_kerner with a coefficient vector of length 1
\* (degree 0) returns the empty sequence of roots, whatever max_iterations,
\* tolerance and dps are.
C1_DegreeZeroReturnsEmpty ==
    (mode = "direct" /\ Len(coefficients) = 1 /\ Ended)
        => (pc = "dk_return" /\ roots = <<>> /\ error = "none")

\* C2, as claimed: a call with [a0, a1], a1 # 0, returns the single root
\* -a0/a1 with zero imaginary part and runs no sweep, for every tolerance
\* and max_iterations.
C2_LinearRootForEveryTolerance ==
    (Len(coefficients) = 2 /\ coefficients[2].m # 0 /\ pc \in {"dk_return", "dk_raise"})
        => /\ pc = "dk_return"
           /\ roots = <<Cx(FDiv(FNeg(coefficients[1]), coefficients[2]), Zero)>>
           /\ iteration = 0
           /\ new_roots = <<>>

\* C2, amended: a call with [a0, a1], a1 # 0, whose |a1| is not below the
\* tolerance returns the single root -a0/a1 with zero imaginary part and
\* runs no sweep, for every max_iterations; when |a1| is below the tolerance
\* the call raises ValueError and returns nothing.
C2_LinearRootAboveTolerance ==
    (Len(coefficients) = 2 /\ coefficients[2].m # 0 /\ pc \in {"dk_return", "dk_raise"})
        => IF FLt(FAbs(coefficients[2]), Tol)
           THEN pc = "dk_raise" /\ error = "ValueError" /\ roots = <<>>
           ELSE /\ pc = "dk_return"
                /\ error = "none"
                /\ roots = <<Cx(FDiv(FNeg(coefficients[1]), coefficients[2]), Zero)>>
                /\ iteration = 0
                /\ new_roots = <<>>

\* A degree 1 call with a nonzero root returned although sweeps were allowed
C2_Witness ==
    /\ pc = "dk_return"
    /\ Len(coefficients) = 2
    /\ Len(roots) = 1
    /\ roots[1].re.m # 0
    /\ SweepBudget > 0

LeadingRadius ==
    FMax(One, FDiv(max_coeff(coefficients), FAbs(coefficients[Len(coefficients)])))

\* C9: for every vector of degree n >= 2 that passes the leading coefficient
\* check, also one whose constant term is zero, initialisation does not fail
\* and creates n estimates on the circle of radius
\* max(1, max|coefficient| / |coeffs[n]|).
C9_InitialCircleFromLeading ==
    (Len(coefficients) >= 3 /\ ~LeadingWithinTolerance /\ coefficients[Len(coefficients)].m # 0
        /\ pc \in {"dk_sweep", "dk_return", "dk_raise"} /\ iteration = 0)
        => /\ Len(roots) = Degree(coefficients)
           /\ \A k \in 1..Len(roots) :
                  roots[k] = Cx(FMul(LeadingRadius, CosTable(Len(roots), k - 1)),
                                FMul(LeadingRadius, SinTable(Len(roots), k - 1)))

InSeq(x, seq) == \E k \in 1..Len(seq) : seq[k] = x

\* x and y are complex conjugates off the real axis
Conjugates(x, y) == x.re = y.re /\ x.im = FNeg(y.im) /\ x.im.m # 0

\* calculate_gaussian_zeros has returned
Returned == mode = "gauss" /\ pc = "gz_return"

\* C4, as claimed: every zero returned by calculate_gaussian_zeros has a
\* non-negative imaginary part, at most one member of each conjugate pair of
\* iterator roots is returned, and there are at most degree-many zeros.
C4_ZerosInClosedUpperHalfPlane ==
    Returned
        => /\ \A k \in 1..Len(zeros) : zeros[k].im.m >= 0
           /\ \A k, l \in 1..Len(roots) :
                  Conjugates(roots[k], roots[l])
                      => ~(InSeq(roots[k], zeros) /\ InSeq(roots[l], zeros))
           /\ Len(zeros) <= Len(trimmed_coefficients) - 1

\* C4, amended: every zero returned has an imaginary part above
\* -zero_tolerance; of two conjugate iterator roots whose imaginary parts
\* are not within zero_tolerance of zero at most one is returned; and there
\* are at most degree-many zeros.
C4_ZerosAboveNegativeTolerance ==
    Returned
        => /\ \A k \in 1..Len(zeros) :
                  /\ FGt(zeros[k].im, FNeg(zero_tolerance(dps)))
                  /\ InSeq(zeros[k], roots)
           /\ \A k, l \in 1..Len(roots) :
                  (Conjugates(roots[k], roots[l])
                      /\ ~FLt(FAbs(roots[k].im), zero_tolerance(dps)))
                      => ~(InSeq(roots[k], zeros) /\ InSeq(roots[l], zeros))
           /\ Len(zeros) <= Len(trimmed_coefficients) - 1

\* Zeros were returned, one of them below the real axis, and a root of the
\* lower half plane was dropped
C4_Witness ==
    /\ Returned
    /\ \E k \in 1..Len(zeros) : zeros[k].im.m < 0
    /\ \E k \in 1..Len(roots) :
           ~InSeq(roots[k], zeros) /\ FLt(roots[k].im, FNeg(zero_tolerance(dps)))

\* C5, as claimed: the vector left by the two trimming loops has length > 1.
C5_TrimLeavesPolynomial ==
    (mode = "gauss" /\ pc # "gz_call") => Len(trimmed_coefficients) > 1

\* C5, amended: the vector left by the two trimming loops has length >= 1
\* (it can be a single constant coefficient), and the iterator is called
\* only with a trimmed vector of length > 1.
C5_TrimLeavesCoefficient ==
    (mode = "gauss" /\ pc # "gz_call")
        => /\ Len(trimmed_coefficients) >= 1
           /\ (pc # "gz_return" \/ error # "none" \/ roots # <<>>)
                  => (Len(trimmed_coefficients) > 1 /\ coefficients = trimmed_coefficients)

\* Trimming reduced the polynomial to one coefficient, removing coefficients
\* at both ends, and the iterator was not called
C5_Witness ==
    /\ Returned
    /\ Len(trimmed_coefficients) = 1
    /\ removed_constant_terms_count >= 1
    /\ Len(trimmed_coefficients) + removed_constant_terms_count < 2 * half_n(taps) + 1
    /\ coefficients = <<>>

\* C6: a failure of durand_kerner called from calculate_gaussian_zeros is
\* not propagated: one diagnostic is printed and the empty list returned;
\* durand_kerner itself hands every failure to its direct caller.
C6_FailureCaughtOnlyByExtractor ==
    /\ pc # "gz_raise"
    /\ (mode = "gauss" /\ error # "none" /\ pc # "dk_raise")
           => (pc = "gz_return" /\ zeros = <<>> /\ stderr = 1)
    /\ (mode = "gauss" /\ error = "none") => stderr = 0
    /\ (mode = "direct" /\ error # "none") => (pc = "dk_raise" /\ stderr = 0)

\* The iterator failed under calculate_gaussian_zeros, which returned
C6_Witness ==
    /\ Returned
    /\ error # "none"
    /\ stderr = 1
    /\ zeros = <<>>

\* C10: the trimming tolerance is above the tolerance of the iterator, so a
\* trimmed vector handed to the iterator has both end coefficients at or
\* above the iterator tolerance and is never rejected by the leading
\* coefficient check.
C10_TrimmedPassesLeadingCheck ==
    (mode = "gauss" /\ Len(coefficients) > 1)
        => /\ FGt(gaussian_filter_zero_tolerance(dps), Tol)
           /\ ~FLt(FAbs(coefficients[1]), Tol)
           /\ ~FLt(FAbs(coefficients[Len(coefficients)]), Tol)
           /\ error # "ValueError"

\* The estimate of index idx after a sweep that starts from the estimates est
SynchronousUpdate(est, idx) ==
    CSub(est[idx + 1],
         CDiv(evaluate_polynomial(coefficients, est[idx + 1]),
              denominator(coefficients, est, idx)))

\* Every correction computed so far in this sweep was computed from the
\* estimates the sweep started with
SweepReadsOldEstimates ==
    pc = "dk_sweep"
        => /\ Len(new_roots) = i
           /\ Len(roots) = Degree(coefficients)
           /\ \A k \in 1..Len(new_roots) : new_roots[k] = SynchronousUpdate(roots, k - 1)

\* The estimates change only at the end of a sweep, all at once
EstimatesReplacedAfterSweep ==
    (pc = "dk_sweep" /\ roots' # roots)
        => (i = Degree(coefficients) /\ Len(new_roots) = Len(roots) /\ roots' = new_roots)

\* C7: in every sweep each correction is computed only from the estimates
\* as they were when the sweep started, and the estimates are replaced only
\* after all n corrections of the sweep have been computed.
C7_SynchronousSweep == []SweepReadsOldEstimates /\ [][EstimatesReplacedAfterSweep]_vars

\* The second correction of a sweep has been computed after the first moved
\* its estimate
C7_Witness ==
    /\ pc = "dk_sweep"
    /\ i = 2
    /\ iteration >= 1
    /\ new_roots[1] # roots[1]
    /\ new_roots[2] # roots[2]

\* Every correction of the sweep just computed is within the tolerance
AllWithinTolerance ==
    \A k \in 1..Len(new_roots) :
        FLe(CAbs(CDiv(evaluate_polynomial(coefficients, roots[k]),
                      denominator(coefficients, roots, k - 1))), Tol)

\* The flag is the convergence test of the corrections computed so far
ConvergedMeansWithinTolerance ==
    pc = "dk_sweep" => (converged <=> AllWithinTolerance)

\* A call of degree >= 2 returns n estimates and no error, after the sweep
\* budget or, earlier, right after a sweep that converged
ReturnsAfterConvergenceOrBudget ==
    (pc = "dk_return" /\ Degree(coefficients) >= 2)
        => /\ Len(roots) = Degree(coefficients)
           /\ error = "none"
           /\ iteration <= SweepBudget
           /\ (iteration < SweepBudget => (converged /\ iteration >= 1))

\* A sweep that did not converge is followed by another while the budget
\* lasts; a sweep that converged is the last one
StopsAtFirstConvergedSweep ==
    (pc = "dk_sweep" /\ i = Degree(coefficients))
        => IF converged \/ iteration + 1 >= SweepBudget
           THEN pc' = "dk_return" /\ iteration' = iteration + 1
           ELSE pc' = "dk_sweep" /\ iteration' = iteration + 1

\* While sweeping, the budget is not used up and the index is in range
SweepWithinBudget ==
    pc = "dk_sweep" => (iteration < SweepBudget /\ i <= Degree(coefficients))

\* The phase of the call, in the order the phases are passed through
Phase(p) ==
    CASE p = "gz_call" -> 0
      [] p = "dk_call" -> 1
      [] p = "dk_sweep" -> 2
      [] p \in {"dk_return", "dk_raise"} -> 3
      [] p \in {"gz_return", "gz_raise"} -> 4

\* Every step advances (phase, iteration, i) in the lexicographic order
StepAdvances ==
    \/ Phase(pc') > Phase(pc)
    \/ Phase(pc') = Phase(pc) /\ iteration' > iteration
    \/ Phase(pc') = Phase(pc) /\ iteration' = iteration /\ i' > i

\* A call that has not ended is at a position that has a next step: Prepare
\* at "gz_call"; RaiseInvalid, Linear or Initialise at "dk_call"; Correct or
\* EndSweep at "dk_sweep"
NotStuck ==
    \/ Ended
    \/ pc \in {"gz_call", "dk_call"}
    \/ pc = "dk_sweep" /\ i <= Degree(coefficients)

====
